---- MODULE Spec2Model ----
(***************************************************************************)
(* A model of the pet-adoption ETL pipeline of src/main.py: the cleaning   *)
(* stages (dropInvalid, dtypeConv), the lookup-table builder (schemaConv), *)
(* the schema resolver (schemaConv2), the two database writers             *)
(* (inConnection, upConnection) and the two entry points                   *)
(* (singleUseProcesses, automaticProcesses).                               *)
(*                                                                         *)
(* A DataFrame is a sequence of rows; a row is a record with the three     *)
(* kinds of column the pipeline treats differently: the identifier         *)
(* (animalID), a category column (species) and a boolean column (flag).    *)
(* A Python string is the sequence of its code points, so that sorted()    *)
(* and pd.to_numeric are computed, not assumed.                            *)
(***************************************************************************)
EXTENDS Integers, Sequences, FiniteSets, TLC

VARIABLES
    folder,       \* the local download folder: the pets_, updatedpets and newpets files
    lookupFile,   \* lookupTables.json: NoFile, or column name -> <<[id, value], ...>>
    db,           \* the petadoption database: table name -> NoTable or [rows, pk]
    transactional,\* whether the storage engine of the tables honours ROLLBACK
    inData,       \* singleUseProcesses' frame after schemaConv
    upData,       \* automaticProcesses' frame handed to upConnection(..., 'pets')
    nData,        \* the frame of the newpets file after schemaConv2
    status,       \* how the last entry point ended
    before,       \* upConnection: the destination table when the call began
    trace,        \* upConnection: the destination after each row statement that ran
    failedAt,     \* upConnection: the row whose statement raised (0: none)
    snaps,        \* the destination after each completed upConnection of one batch
    calls         \* how often upConnection was called with that batch

vars == <<folder, lookupFile, db, transactional, inData, upData, nData,
          status, before, trace, failedAt, snaps, calls>>

---------------------------------------------------------------------------
(* Values of a cell. *)

Str(s) == [t |-> "str", v |-> s]
Int32(n) == [t |-> "int", v |-> n]
Bool(b) == [t |-> "bool", v |-> b]
None == [t |-> "None"]     \* Python None, JSON null, SQL NULL
NaN == [t |-> "nan"]       \* numpy.nan
NA == [t |-> "NA"]         \* pandas.NA

IsNull(c) == c \in {None, NaN, NA}

\* Code points of the characters the inputs use.
Digits == 48..57

\* String literals, as code points.
EmptyStr == <<>>
Yes == <<89, 101, 115>>
No == <<78, 111>>
LowerYes == <<121, 101, 115>>
Maybe == <<77, 97, 121, 98, 101>>
Bird == <<66, 105, 114, 100>>
Cat == <<67, 97, 116>>
Dog == <<68, 111, 103>>
Fish == <<70, 105, 115, 104>>
Rabbit == <<82, 97, 98, 98, 105, 116>>
Hamster == <<72, 97, 109, 115, 116, 101, 114>>
Ant == <<65, 110, 116>>
LowerCat == <<99, 97, 116>>

\* The decimal text of a natural number below 100, as str() gives it.
DecStr(n) == IF n < 10 THEN <<48 + n>> ELSE <<48 + (n \div 10), 48 + (n % 10)>>

RECURSIVE DecValue(_)
\* int() of a string of decimal digits.
DecValue(s) ==
    IF s = <<>> THEN 0
    ELSE 10 * DecValue(SubSeq(s, 1, Len(s) - 1)) + (s[Len(s)] - 48)

RECURSIVE LexLess(_, _)
\* Python's < on str: code point by code point, a proper prefix first.
LexLess(a, b) ==
    IF b = <<>> THEN FALSE
    ELSE IF a = <<>> THEN TRUE
    ELSE IF a[1] # b[1] THEN a[1] < b[1]
    ELSE LexLess(Tail(a), Tail(b))

RECURSIVE InsertSorted(_, _)
InsertSorted(x, s) ==
    IF s = <<>> THEN <<x>>
    ELSE IF LexLess(x, s[1]) THEN <<x>> \o s
    ELSE <<s[1]>> \o InsertSorted(x, Tail(s))

RECURSIVE Sorted(_)
\* sorted() of a set of distinct strings.
Sorted(S) ==
    IF S = {} THEN <<>>
    ELSE LET x == CHOOSE y \in S : TRUE
         IN  InsertSorted(x, Sorted(S \ {x}))

\* f of every row of df, in order.
MapRows(df, f(_)) ==
    LET done[i \in 0..Len(df)] ==
            IF i = 0 THEN <<>> ELSE Append(done[i - 1], f(df[i]))
    IN  done[Len(df)]

---------------------------------------------------------------------------
(* Pipeline part 3: prepare and clean the data. *)

IsDecimal(s) == s # <<>> /\ \A i \in 1..Len(s) : s[i] \in Digits

\* pd.to_numeric(errors='coerce') of one cell: a number, or NaN for what does
\* not parse.
ToNumeric(c) ==
    IF c.t = "int" THEN c
    ELSE IF c.t = "str" /\ IsDecimal(c.v) THEN Int32(DecValue(c.v))
    ELSE NaN

\* dropna left out: the coerced rows all stay.
KeepNa(df) == df

RECURSIVE DropNa(_)
\* df.dropna(subset=['animalID'])
DropNa(df) ==
    IF df = <<>> THEN <<>>
    ELSE IF IsNull(df[1].animalID) THEN DropNa(Tail(df))
    ELSE <<df[1]>> \o DropNa(Tail(df))

\* dropInvalid. pd.DataFrame([]) has no column, and df.iloc[:, 1] raises on it.
dropInvalid(df) ==
    IF df = <<>> THEN [raised |-> TRUE, df |-> <<>>]
    ELSE [raised |-> FALSE,
          df |-> DropNa(MapRows(df, LAMBDA r :
                    [r EXCEPT !.animalID = ToNumeric(r.animalID)]))]

\* A map that takes every literal but "Yes" for false.
boolMapYesOnly(c) == IF c = Str(Yes) THEN Bool(TRUE) ELSE Bool(FALSE)

\* boolMap of dtypeConv, as Series.map applies it: the mapped value, or NaN for
\* a key the dict does not hold.
boolMap(c) ==
    IF c = Str(Yes) THEN Bool(TRUE)
    ELSE IF c = Str(No) THEN Bool(FALSE)
    ELSE IF c = Str(EmptyStr) THEN NA
    ELSE IF c = None THEN NA
    ELSE NaN

\* .astype('boolean'): every missing marker becomes pandas.NA.
AsBoolean(c) == IF IsNull(c) THEN NA ELSE c

\* .astype('category'): the value verbatim; a missing value is no category.
AsCategory(c) == IF IsNull(c) THEN NaN ELSE c

\* Whether .astype(int) raises on this cell.
IntCastRaises(c) == ~(c.t = "int" \/ (c.t = "str" /\ IsDecimal(c.v)))

AsInt(c) == IF c.t = "str" THEN Int32(DecValue(c.v)) ELSE c

\* replace left out: NaN stays.
KeepNan(c) == c

\* df.replace({np.nan: None}); a column of dtype boolean keeps pandas.NA.
NanToNone(c) == IF c = NaN THEN None ELSE c

\* dtypeConv: raised when a strictly-integer column holds a non-number, and
\* otherwise the typed frame.
dtypeConv(df) ==
    IF \E i \in 1..Len(df) : IntCastRaises(df[i].animalID)
    THEN [raised |-> TRUE, df |-> <<>>]
    ELSE [raised |-> FALSE,
          df |-> MapRows(df, LAMBDA r :
                    [animalID |-> AsInt(r.animalID),
                     species |-> NanToNone(AsCategory(r.species)),
                     flag |-> NanToNone(AsBoolean(boolMap(r.flag)))])]

\* The columns dtypeConv casts to 'category'.
catList == {"species"}

\* "Filters for >5 values".
Threshold == 5

\* A filter that lets a column of exactly 5 values through.
AtThreshold(n) == n >= 5

\* if (len(uniqueVals)>5)
AboveThreshold(n) == n > Threshold

\* df[col].cat.categories: the distinct values present, nulls excluded.
Categories(df, col) == {df[i][col].v : i \in {j \in 1..Len(df) : ~IsNull(df[j][col])}}

\* A mapping numbered by position from 0, not by the id column.
MappingByPosition(lookup) ==
    LET dict[k \in 0..Len(lookup)] ==
            IF k = 0 THEN <<>>
            ELSE (lookup[k].value :> (k - 1)) @@ dict[k - 1]
    IN  dict[Len(lookup)]

\* dict(zip(lookup_df['value'], lookup_df['id'])): a later pair replaces an
\* earlier one with the same value.
Mapping(lookup) ==
    LET dict[k \in 0..Len(lookup)] ==
            IF k = 0 THEN <<>>
            ELSE (lookup[k].value :> lookup[k].id) @@ dict[k - 1]
    IN  dict[Len(lookup)]

\* Series.map(mapping) of one cell: the id, or NaN.
MapCell(c, mapping) ==
    IF ~IsNull(c) /\ c.v \in DOMAIN mapping THEN Int32(mapping[c.v]) ELSE NaN

\* .astype("Int32"): a missing value becomes pandas.NA.
AsInt32(c) == IF IsNull(c) THEN NA ELSE c

\* A lookup table numbered range(len(uniqueVals)): from 0.
BuildLookupFromZero(df, col) ==
    LET uniqueVals == Sorted(Categories(df, col))
        pairs[k \in 0..Len(uniqueVals)] ==
            IF k = 0 THEN <<>>
            ELSE Append(pairs[k - 1], [id |-> k - 1, value |-> uniqueVals[k]])
    IN  pairs[Len(uniqueVals)]

\* The lookup table schemaConv builds for one column.
BuildLookup(df, col) ==
    LET uniqueVals == Sorted(Categories(df, col))
        pairs[k \in 0..Len(uniqueVals)] ==
            IF k = 0 THEN <<>>
            ELSE Append(pairs[k - 1], [id |-> k, value |-> uniqueVals[k]])
    IN  pairs[Len(uniqueVals)]

RECURSIVE BuildLookups(_, _)
\* lookupTables of schemaConv: a lookup table for each of the columns `cols`
\* with more than Threshold distinct values.
BuildLookups(df, cols) ==
    IF cols = {} THEN <<>>
    ELSE LET col == CHOOSE c \in cols : TRUE
             lookup_df == BuildLookup(df, col)
             rest == BuildLookups(df, cols \ {col})
         IN  IF AboveThreshold(Len(lookup_df)) THEN (col :> lookup_df) @@ rest
             ELSE rest

RECURSIVE Mappings(_, _)
\* The mapping of each column of `cols` that `tables` holds.
Mappings(tables, cols) ==
    IF cols = {} THEN <<>>
    ELSE LET col == CHOOSE c \in cols : TRUE
         IN  (col :> Mapping(tables[col])) @@ Mappings(tables, cols \ {col})

\* schemaConv: the converted frame and the lookup tables, which it also
\* writes to lookupTables.json.
schemaConv(df) ==
    LET lookupTables == BuildLookups(df, catList)
        mapping == Mappings(lookupTables, DOMAIN lookupTables)
        Convert(col, c) ==
            IF col \in DOMAIN lookupTables THEN AsInt32(MapCell(c, mapping[col]))
            ELSE c
    IN  [df |-> MapRows(df, LAMBDA r :
                    [animalID |-> Convert("animalID", r.animalID),
                     species |-> Convert("species", r.species),
                     flag |-> Convert("flag", r.flag)]),
         lookupTables |-> lookupTables]

\* lookupTables.json before the first schemaConv.
NoFile == [missing |-> TRUE]

\* schemaConv2: raised when lookupTables.json cannot be opened, and otherwise
\* the frame with the columns the file names mapped through it.
schemaConv2(df, file) ==
    IF file = NoFile THEN [raised |-> TRUE, df |-> <<>>]
    ELSE LET cols == catList \cap DOMAIN file
             mapping == Mappings(file, cols)
             Convert(col, c) ==
                NanToNone(IF col \in cols THEN MapCell(c, mapping[col]) ELSE c)
         IN  [raised |-> FALSE,
              df |-> MapRows(df, LAMBDA r :
                        [animalID |-> Convert("animalID", r.animalID),
                         species |-> Convert("species", r.species),
                         flag |-> Convert("flag", r.flag)])]

---------------------------------------------------------------------------
(* Pipeline part 4: store the processed data into the SQL database. *)

\* What the driver binds for a cell: every missing marker is SQL NULL.
SqlValue(c) == IF IsNull(c) THEN None ELSE c

\* df.to_dict("records"), as bound by the driver.
records(df) ==
    MapRows(df, LAMBDA r :
        [animalID |-> SqlValue(r.animalID), species |-> SqlValue(r.species),
         flag |-> SqlValue(r.flag)])

NoTable == [exists |-> FALSE, rows |-> <<>>, pk |-> FALSE]

\* The tables inConnection gives a primary key on animalID.
KeyedTables == {"pets", "new_pets"}

\* Whether ALTER TABLE ... ADD PRIMARY KEY (animalID) is accepted.
KeyAccepted(rows) ==
    /\ \A i \in 1..Len(rows) : rows[i].animalID # None
    /\ \A i, j \in 1..Len(rows) : rows[i].animalID = rows[j].animalID => i = j

\* inConnection: df.to_sql(if_exists='replace'), then the primary key for the
\* pets and new_pets tables. raised: the ALTER TABLE was rejected, and the
\* replaced table is left without a key.
inConnection(d, df, table) ==
    LET rows == records(df)
        keyed == table \in KeyedTables
        ok == ~keyed \/ KeyAccepted(rows)
    IN  [db |-> [d EXCEPT ![table] =
                    [exists |-> TRUE, rows |-> rows, pk |-> keyed /\ ok]],
         raised |-> ~ok]

\* The lookup table of a column as the frame uploadLookupTables uploads.
LookupFrame(lookup) ==
    MapRows(lookup, LAMBDA pair : [id |-> Int32(pair.id), value |-> Str(pair.value)])

\* uploadLookupTables: a replaced table per lookup table, named by its column.
uploadLookupTables(d, lookupDict) ==
    LET Upload(table) ==
            IF table \in DOMAIN lookupDict
            THEN [exists |-> TRUE, rows |-> LookupFrame(lookupDict[table]),
                  pk |-> FALSE]
            ELSE d[table]
    IN  [pets |-> Upload("pets"), new_pets |-> Upload("new_pets"),
         species |-> Upload("species")]

\* pk_cols of the reflected table.
PkCols(tbl) == IF tbl.pk THEN {"animalID"} ELSE {}

\* An update_dict that leaves the flag column out.
ColumnButFlag(tbl, row, record, col) ==
    IF col \in {"animalID", "flag"} THEN row[col] ELSE record[col]

\* update_dict: a column of the key keeps the row's value, any other takes the
\* inserted one.
Column(tbl, row, record, col) ==
    IF col \in PkCols(tbl) THEN row[col] ELSE record[col]

\* INSERT IGNORE: a record whose key the table holds changes nothing.
InsertIgnore(tbl, record) ==
    IF \E i \in 1..Len(tbl.rows) : tbl.pk /\ tbl.rows[i].animalID = record.animalID
    THEN tbl
    ELSE [tbl EXCEPT !.rows = Append(tbl.rows, record)]

\* A statement that adds its values to the stored ones: the species id grows by
\* the record's.
UpsertAdding(tbl, record) ==
    IF \E i \in 1..Len(tbl.rows) : tbl.pk /\ tbl.rows[i].animalID = record.animalID
    THEN [tbl EXCEPT !.rows =
            MapRows(tbl.rows, LAMBDA row :
                IF row.animalID = record.animalID
                THEN [animalID |-> row.animalID,
                      species |-> IF row.species = None \/ record.species = None
                                  THEN record.species
                                  ELSE Int32(row.species.v + record.species.v),
                      flag |-> record.flag]
                ELSE row)]
    ELSE [tbl EXCEPT !.rows = Append(tbl.rows, record)]

\* One INSERT ... ON DUPLICATE KEY UPDATE statement: the row whose key equals
\* the record's gets every non-key column from the record; with no such row
\* the record is inserted.
UpsertRow(tbl, record) ==
    LET hit == {i \in 1..Len(tbl.rows) :
                    tbl.pk /\ tbl.rows[i].animalID = record.animalID}
    IN  IF hit # {}
        THEN [tbl EXCEPT !.rows =
                MapRows(tbl.rows, LAMBDA row :
                    IF tbl.pk /\ row.animalID = record.animalID
                    THEN [animalID |-> Column(tbl, row, record, "animalID"),
                          species |-> Column(tbl, row, record, "species"),
                          flag |-> Column(tbl, row, record, "flag")]
                    ELSE row)]
        ELSE [tbl EXCEPT !.rows = Append(tbl.rows, record)]

RECURSIVE UpsertTrace(_, _)
\* The table after each of the statements of the loop, in order.
UpsertTrace(tbl, recs) ==
    IF recs = <<>> THEN <<>>
    ELSE LET next == UpsertRow(tbl, recs[1])
         IN  <<next>> \o UpsertTrace(next, Tail(recs))

\* Autocommit: every statement that ran stays.
AfterStatements(tbl, ran, raised, txn) ==
    IF ran = <<>> THEN tbl ELSE ran[Len(ran)]

\* What the table holds once the "with engine.begin()" block is left: the
\* commit of every statement, or, when one raised, the rollback of those
\* that ran; a storage engine without transactions keeps them.
AfterBlock(tbl, ran, raised, txn) ==
    IF ran = <<>> \/ (raised /\ txn) THEN tbl ELSE ran[Len(ran)]

\* upConnection on table tableName, the statement of row failAt raising
\* (0: none does). raised also when the table cannot be reflected.
upConnection(d, df, tableName, failAt, txn) ==
    IF ~d[tableName].exists
    THEN [db |-> d, raised |-> TRUE, before |-> d[tableName], trace |-> <<>>,
          failedAt |-> 0]
    ELSE LET recs == records(df)
             raised == failAt \in 1..Len(recs)
             ran == UpsertTrace(d[tableName],
                        IF raised THEN SubSeq(recs, 1, failAt - 1) ELSE recs)
         IN  [db |-> [d EXCEPT ![tableName] = AfterBlock(d[tableName], ran, raised, txn)],
              raised |-> raised, before |-> d[tableName], trace |-> ran,
              failedAt |-> IF raised THEN failAt ELSE 0]

---------------------------------------------------------------------------
(* Pipeline parts 1 and 2: the files of the folder as frames. *)

NoLocalFile == [present |-> FALSE, data |-> <<>>]
LocalFile(data) == [present |-> TRUE, data |-> data]

\* update_files: the daily newpets and updatedpets files are downloaded on
\* every run, any other remote file only when the folder lacks it.
update_files(local, remote) ==
    [pets_ |-> IF local.pets_.present THEN local.pets_ ELSE LocalFile(remote.pets_),
     updatedpets |-> LocalFile(remote.updatedpets),
     newpets |-> LocalFile(remote.newpets)]

\* zipReader over the files of `order` whose name starts with one of
\* `prefixes`, in that order, as one list of records.
RECURSIVE ReadFiles(_, _, _)
ReadFiles(local, order, prefixes) ==
    IF order = <<>> THEN <<>>
    ELSE (IF order[1] \in prefixes /\ local[order[1]].present
          THEN local[order[1]].data ELSE <<>>)
         \o ReadFiles(local, Tail(order), prefixes)

initialData(local, order) == ReadFiles(local, order, {"pets_"})
updateData(local, order) == ReadFiles(local, order, {"updatedpets", "newpets"})
newData(local, order) == ReadFiles(local, order, {"newpets"})

\* The orders os.listdir may return the files in.
Listings ==
    {<<"pets_", "updatedpets", "newpets">>, <<"pets_", "newpets", "updatedpets">>}

---------------------------------------------------------------------------
(* The entry points. An exception leaves the entry point at once: what the  *)
(* earlier stages wrote stays written.                                      *)

\* How an entry point ended: its name, and whether an exception left it.
Ended(entry, raised) == [entry |-> entry, raised |-> raised]

\* singleUseProcesses, on what the FTP server holds and the order os.listdir
\* answers with.
singleUseProcesses(remote, order) ==
    LET local == update_files(folder, remote)
        a == dropInvalid(initialData(local, order))
        b == dtypeConv(a.df)
        c == schemaConv(b.df)
        d1 == inConnection(db, c.df, "pets")
        d2 == uploadLookupTables(d1.db, c.lookupTables)
        e == dropInvalid(newData(local, order))
        f == dtypeConv(e.df)
        g == schemaConv2(f.df, c.lookupTables)
        d3 == inConnection(d2, g.df, "new_pets")
    IN  /\ folder' = local
        /\ upData' = <<>>
        /\ IF a.raised \/ b.raised
           THEN /\ status' = Ended("singleUseProcesses", TRUE)
                /\ inData' = <<>>
                /\ nData' = <<>>
                /\ UNCHANGED <<lookupFile, db>>
           ELSE /\ lookupFile' = c.lookupTables
                /\ inData' = c.df
                /\ IF d1.raised
                   THEN /\ status' = Ended("singleUseProcesses", TRUE)
                        /\ nData' = <<>>
                        /\ db' = d1.db
                   ELSE IF e.raised \/ f.raised \/ g.raised
                   THEN /\ status' = Ended("singleUseProcesses", TRUE)
                        /\ nData' = <<>>
                        /\ db' = d2
                   ELSE /\ status' = Ended("singleUseProcesses", d3.raised)
                        /\ nData' = g.df
                        /\ db' = d3.db
        /\ UNCHANGED <<transactional, before, trace, failedAt, snaps, calls>>

\* automaticProcesses, on what the FTP server holds and the order os.listdir
\* answers with.
automaticProcesses(remote, order) ==
    LET local == update_files(folder, remote)
        a == dropInvalid(updateData(local, order))
        b == dtypeConv(a.df)
        c == schemaConv2(b.df, lookupFile)
        u1 == upConnection(db, c.df, "pets", 0, transactional)
        e == dropInvalid(newData(local, order))
        f == dtypeConv(e.df)
        g == schemaConv2(f.df, lookupFile)
        u2 == upConnection(u1.db, g.df, "new_pets", 0, transactional)
    IN  /\ folder' = local
        /\ inData' = <<>>
        /\ IF a.raised \/ b.raised \/ c.raised
           THEN /\ status' = Ended("automaticProcesses", TRUE)
                /\ upData' = <<>>
                /\ nData' = <<>>
                /\ UNCHANGED db
           ELSE /\ upData' = c.df
                /\ IF u1.raised
                   THEN /\ status' = Ended("automaticProcesses", TRUE)
                        /\ nData' = <<>>
                        /\ db' = u1.db
                   ELSE IF e.raised \/ f.raised \/ g.raised
                   THEN /\ status' = Ended("automaticProcesses", TRUE)
                        /\ nData' = <<>>
                        /\ db' = u1.db
                   ELSE /\ status' = Ended("automaticProcesses", u2.raised)
                        /\ nData' = g.df
                        /\ db' = u2.db
        /\ UNCHANGED <<lookupFile, transactional, before, trace, failedAt, snaps, calls>>

\* upConnection called on its own, with the frame upData and the 'pets'
\* table, the statement of row failAt raising (0: none does).
upConnectionCall(failAt) ==
    LET u == upConnection(db, upData, "pets", failAt, transactional)
    IN  /\ db' = u.db
        /\ before' = u.before
        /\ trace' = u.trace
        /\ failedAt' = u.failedAt
        /\ status' = Ended("upConnection", u.raised)
        /\ snaps' = IF u.raised THEN snaps ELSE Append(snaps, u.db["pets"])
        /\ calls' = calls + 1
        /\ UNCHANGED <<folder, lookupFile, transactional, inData, upData, nData>>

---------------------------------------------------------------------------
(* The inputs. *)

\* At most n elements of S, in any order.
BoundedSeq(S, n) == UNION {[1..k -> S] : k \in 0..n}

Pet(id, species, flag) == [animalID |-> id, species |-> species, flag |-> flag]

\* A pets_ file: the pets numbered from 1, one per species of the list.
PetsFile(speciesList) ==
    [i \in 1..Len(speciesList) |-> Pet(Str(DecStr(i)), speciesList[i], Str(Yes))]

\* A record whose animalID is a placeholder, not a number.
Placeholder == <<105, 109, 103>>

FiveSpecies == <<Str(Dog), Str(Cat), Str(Dog), Str(Bird), Str(Cat), Str(Dog),
                 Str(Fish), Str(Rabbit)>>
SixSpecies == <<Str(Dog), Str(Cat), Str(Bird), Str(Fish), Str(Rabbit), Str(Ant)>>

\* The rows a day's updatedpets and newpets files hold together, at most.
MaxDaily == 2

\* A feed file lists a pet once.
OncePerFile(file) ==
    \A i, j \in 1..Len(file) : file[i].animalID = file[j].animalID => i = j

\* The pairs of daily files over the records of S.
DailyFiles(S) ==
    {p \in BoundedSeq(S, MaxDaily) \X BoundedSeq(S, MaxDaily) :
        /\ Len(p[1]) + Len(p[2]) <= MaxDaily
        /\ OncePerFile(p[1])
        /\ OncePerFile(p[2])}

\* What the FTP server may hold: a pets_ file of petsFiles, which is read only
\* when the folder lacks one, and a pair of daily files.
Remotes(petsFiles, S) ==
    {[pets_ |-> pf, updatedpets |-> p[1], newpets |-> p[2]] :
        pf \in IF folder.pets_.present THEN {folder.pets_.data} ELSE petsFiles,
        p \in DailyFiles(S)}

\* A pet the database knows with a species the lookup table lacks, a new pet of
\* a species it holds, and a record with a placeholder for its animalID.
DailyRecords ==
    {Pet(Str(DecStr(2)), Str(Hamster), Str(No)),
     Pet(Str(DecStr(12)), Str(Dog), Str(Yes)),
     Pet(Str(Placeholder), Str(Dog), Str(Yes))}

MainPetsFiles ==
    {PetsFile(SixSpecies) \o <<Pet(Str(Placeholder), Str(Hamster), Str(Yes))>>,
     PetsFile(FiveSpecies)}

MainRemotes == Remotes(MainPetsFiles, DailyRecords)

\* singleUseProcesses is the load from scratch: main.py keeps its call
\* commented out once the pets table stands.
FromScratch == ~db.pets.exists

---------------------------------------------------------------------------
(* The pipeline: nothing downloaded, no lookupTables.json, an empty         *)
(* database. No statement of upConnection raises here, so the storage      *)
(* engine is never asked to roll back.                                     *)

EmptyFolder ==
    [pets_ |-> NoLocalFile, updatedpets |-> NoLocalFile, newpets |-> NoLocalFile]

EmptyDb == [pets |-> NoTable, new_pets |-> NoTable, species |-> NoTable]

NoFrames ==
    /\ inData = <<>>
    /\ upData = <<>>
    /\ nData = <<>>

NoCall ==
    /\ before = NoTable
    /\ trace = <<>>
    /\ failedAt = 0
    /\ snaps = <<>>
    /\ calls = 0

Init ==
    /\ folder = EmptyFolder
    /\ lookupFile = NoFile
    /\ db = EmptyDb
    /\ transactional = TRUE
    /\ status = Ended("none", FALSE)
    /\ NoFrames
    /\ NoCall

FullLoad ==
    /\ FromScratch
    /\ \E remote \in MainRemotes, order \in Listings :
            singleUseProcesses(remote, order)

Incremental ==
    \E remote \in MainRemotes, order \in Listings :
        automaticProcesses(remote, order)

Next == FullLoad \/ Incremental

Spec == Init /\ [][Next]_vars

---------------------------------------------------------------------------
(* The first run over pets_ files of five to eight species: the scenario   *)
(* of the specification, followed by up to MaxExtra pets more.             *)

MaxExtra == 3

ExtraSpecies == {Str(Ant), Str(Hamster), Str(LowerCat), Str(EmptyStr), None}

SchemaPetsFiles ==
    {PetsFile(FiveSpecies \o extra) : extra \in BoundedSeq(ExtraSpecies, MaxExtra)}

SchemaRemotes ==
    {[pets_ |-> pf, updatedpets |-> <<>>,
      newpets |-> <<Pet(Str(DecStr(12)), Str(Hamster), Str(Yes))>>] :
        pf \in SchemaPetsFiles}

FirstRun ==
    /\ FromScratch
    /\ \E remote \in SchemaRemotes, order \in Listings :
            singleUseProcesses(remote, order)

SpecSchema == Init /\ [][FirstRun]_vars

---------------------------------------------------------------------------
(* The cleaning stages on their own, over newpets files whose flag column  *)
(* holds every kind of literal.                                            *)

MaxFile == 2

\* A key the record lacks reads as NaN in the frame, a JSON null as None.
FlagLiterals ==
    {Str(Yes), Str(No), Str(EmptyStr), None, NaN, Str(LowerYes), Str(Maybe)}

CleanRecords ==
    {Pet(id, Str(Dog), flag) :
        id \in {Str(DecStr(2)), Str(Placeholder)}, flag \in FlagLiterals}

InitClean ==
    /\ folder \in {[EmptyFolder EXCEPT !.newpets = LocalFile(file)] :
                        file \in BoundedSeq(CleanRecords, MaxFile)}
    /\ lookupFile = NoFile
    /\ db = EmptyDb
    /\ transactional = TRUE
    /\ status = Ended("none", FALSE)
    /\ NoFrames
    /\ NoCall

\* dropInvalid and dtypeConv on the frame of the newpets file.
Clean ==
    /\ status.entry = "none"
    /\ \E order \in Listings :
        LET a == dropInvalid(newData(folder, order))
            b == dtypeConv(a.df)
        IN  /\ nData' = b.df
            /\ status' = Ended("dtypeConv", a.raised \/ b.raised)
    /\ UNCHANGED <<folder, lookupFile, db, transactional, inData, upData, before,
                   trace, failedAt, snaps, calls>>

SpecClean == InitClean /\ [][Clean]_vars

---------------------------------------------------------------------------
(* upConnection on its own: a keyed pets table, a typed frame, and calls   *)
(* with the same frame, any of whose statements may raise.                 *)

MaxBatch == 2
MaxCalls == 2

UpsertIds == {1, 2}

\* The rows a frame may hold: a species id or none, a flag or none.
UpsertRows ==
    {[animalID |-> Int32(i), species |-> sp, flag |-> fl] :
        i \in UpsertIds, sp \in {Int32(3), None}, fl \in {Bool(TRUE), NA}}

\* The row the table holds for a pet before the calls.
StoredRow(i) == [animalID |-> Int32(i), species |-> Int32(1), flag |-> Bool(FALSE)]

\* The keyed tables: any of the pets, in the order of their ids.
UpsertTables ==
    {[exists |-> TRUE, pk |-> TRUE,
      rows |-> (IF 1 \in ids THEN <<StoredRow(1)>> ELSE <<>>)
               \o (IF 2 \in ids THEN <<StoredRow(2)>> ELSE <<>>)] :
        ids \in SUBSET UpsertIds}

InitUpsert ==
    /\ folder = EmptyFolder
    /\ lookupFile = NoFile
    /\ db \in {[EmptyDb EXCEPT !.pets = tbl] : tbl \in UpsertTables}
    /\ transactional \in BOOLEAN
    /\ status = Ended("none", FALSE)
    /\ inData = <<>>
    /\ upData \in BoundedSeq(UpsertRows, MaxBatch)
    /\ nData = <<>>
    /\ NoCall

Upsert ==
    /\ calls < MaxCalls
    /\ \E failAt \in 0..Len(upData) : upConnectionCall(failAt)

SpecUpsert == InitUpsert /\ [][Upsert]_vars

---------------------------------------------------------------------------
(* The properties of upConnection, under SpecUpsert.                       *)

\* Whether the last step was a call of upConnection that no statement left
\* by an exception.
Upserted == status.entry = "upConnection" /\ ~status.raised

\* The table a row statement of the last call started from.
BeforeStatement(i) == IF i = 1 THEN before ELSE trace[i - 1]

\* The rows of tbl with this identifier.
RowsOf(tbl, id) == {j \in 1..Len(tbl.rows) : tbl.rows[j].animalID = id}

\* C1: the upsert is idempotent. Every completed call of upConnection with
\* the same batch on a keyed table leaves the table as the first completed
\* call left it: same rows, same column values.
UpsertIdempotent == \A i \in 1..Len(snaps) : snaps[i] = snaps[1]

\* Two completed calls of a batch that changed the table, the second one
\* starting from what the first one left.
UpsertIdempotentWitness ==
    /\ Len(snaps) = 2
    /\ Upserted
    /\ Len(upData) = 2
    /\ before = snaps[1]
    /\ \E i \in 1..Len(before.rows) : before.rows[i] \notin {StoredRow(id) : id \in UpsertIds}

\* C2: each row statement of upConnection either overwrites every non-key
\* column of the row with its identifier, the row count unchanged, or, with
\* no such row, inserts the record, the row count one more; every other row
\* is as before, and after the call the rows whose identifier the batch lacks
\* are unchanged.
UpsertPerRow ==
    /\ \A i \in 1..Len(trace) :
        LET pre == BeforeStatement(i).rows
            post == trace[i].rows
            rec == records(upData)[i]
        IN  IF \E j \in 1..Len(pre) : pre[j].animalID = rec.animalID
            THEN /\ Len(post) = Len(pre)
                 /\ \A j \in 1..Len(pre) :
                        post[j] = IF pre[j].animalID = rec.animalID THEN rec ELSE pre[j]
            ELSE /\ Len(post) = Len(pre) + 1
                 /\ post[Len(post)] = rec
                 /\ \A j \in 1..Len(pre) : post[j] = pre[j]
    /\ Upserted =>
        \A j \in 1..Len(before.rows) :
            (\A i \in 1..Len(upData) : upData[i].animalID # before.rows[j].animalID)
                => db.pets.rows[j] = before.rows[j]

\* A call whose first statement overwrote a row with other values and whose
\* second statement inserted one.
UpsertPerRowWitness ==
    /\ Upserted
    /\ Len(trace) = 2
    /\ Len(before.rows) = 1
    /\ before.rows[1].animalID = upData[1].animalID
    /\ trace[1].rows = <<records(upData)[1]>>
    /\ trace[1] # before
    /\ Len(trace[2].rows) = 2
    /\ db.pets = trace[2]

\* C9, as the specification states it: when the statement of row k raises,
\* the table is left with the statements of rows 1..k-1 applied.
PartialBatchRemains ==
    (status.entry = "upConnection" /\ status.raised) =>
        db.pets = BeforeStatement(failedAt)

\* C9, as the code has it: the statements run inside one "with
\* engine.begin()" block. When the statement of row k raises, no later row is
\* applied, and the block rolls the statements of rows 1..k-1 back: the table
\* is as before the call. They remain applied only in a table whose storage
\* engine has no transactions.
FailedBatchRolledBack ==
    (status.entry = "upConnection" /\ status.raised) =>
        /\ failedAt \in 1..Len(upData)
        /\ Len(trace) = failedAt - 1
        /\ db.pets = IF transactional THEN before ELSE BeforeStatement(failedAt)

\* The second statement raised after the first one had changed the table, and
\* the table is as before the call.
FailedBatchRolledBackWitness ==
    /\ status.entry = "upConnection"
    /\ status.raised
    /\ transactional
    /\ failedAt = 2
    /\ trace[1] # before
    /\ db.pets = before

\* C10: after a call whose batch holds an identifier in several rows, the
\* table holds one row for it, with the non-key columns of the last of them.
LastDuplicateWins ==
    Upserted =>
        \A i \in 1..Len(upData) :
            LET id == upData[i].animalID
                last == CHOOSE k \in 1..Len(upData) :
                            /\ upData[k].animalID = id
                            /\ \A m \in 1..Len(upData) : upData[m].animalID = id => m <= k
            IN  /\ Cardinality(RowsOf(db.pets, id)) = 1
                /\ \A j \in RowsOf(db.pets, id) : db.pets.rows[j] = records(upData)[last]

\* A batch of two rows with one identifier and different values, upserted
\* into a table that held the identifier.
LastDuplicateWinsWitness ==
    /\ Upserted
    /\ Len(upData) = 2
    /\ upData[1].animalID = upData[2].animalID
    /\ records(upData)[1] # records(upData)[2]
    /\ RowsOf(before, upData[1].animalID) # {}
    /\ Len(trace) = 2
    /\ trace[1] # trace[2]

---------------------------------------------------------------------------
(* The properties of the cleaning and schema stages.                       *)

\* The records of a raw file whose animalID is the text of a number.
NumericRows(file) ==
    SelectSeq(file, LAMBDA r : r.animalID.t = "str" /\ IsDecimal(r.animalID.v))

\* The identifiers a typed frame or a table holds, in order.
IdsOf(rows) == [i \in 1..Len(rows) |-> rows[i].animalID]

\* The identifiers of the numeric records of a raw file, in order.
ExpectedIds(file) ==
    LET raw == NumericRows(file)
    IN  [i \in 1..Len(raw) |-> Int32(DecValue(raw[i].animalID.v))]

\* The values a lookup table holds.
ValuesOf(lookup) == {lookup[k].value : k \in 1..Len(lookup)}

\* The id a lookup table gives a value it holds.
IdOf(lookup, value) == lookup[CHOOSE k \in 1..Len(lookup) : lookup[k].value = value].id

\* C7: dtypeConv maps "Yes" of a boolean column to true, "No" to false, the
\* empty string and a missing value to unknown, every other literal to
\* unknown, and none of them makes the stage raise.
TriStateBoolean ==
    (status.entry = "dtypeConv" /\ folder.newpets.data # <<>>) =>
        LET raw == NumericRows(folder.newpets.data)
        IN  /\ ~status.raised
            /\ Len(nData) = Len(raw)
            /\ \A i \in 1..Len(raw) :
                nData[i].flag = IF raw[i].flag = Str(Yes) THEN Bool(TRUE)
                                ELSE IF raw[i].flag = Str(No) THEN Bool(FALSE)
                                ELSE NA

\* A file with a literal that is neither "Yes", "No" nor empty in one record
\* and "No" in another, typed as unknown and false.
TriStateBooleanWitness ==
    /\ status.entry = "dtypeConv"
    /\ ~status.raised
    /\ Len(nData) = 2
    /\ folder.newpets.data[1].flag \in {Str(Maybe), Str(LowerYes)}
    /\ folder.newpets.data[2].flag = Str(No)
    /\ nData[1].flag = NA
    /\ nData[2].flag = Bool(FALSE)

\* The distinct species of the numeric records of the pets_ file.
DistinctSpecies ==
    LET raw == NumericRows(folder.pets_.data)
    IN  {raw[i].species.v : i \in {j \in 1..Len(raw) : raw[j].species.t = "str"}}

\* C3: when the species column of the first run holds more than 5 distinct
\* values, the lookup table of schemaConv numbers them 1..N, N the number of
\* distinct values, id k for the k-th value in sorted order, and every row of
\* the typed frame holds the id of its value.
ContiguousSortedIds ==
    (status.entry = "singleUseProcesses" /\ lookupFile # NoFile
        /\ Cardinality(DistinctSpecies) > 5) =>
        /\ "species" \in DOMAIN lookupFile
        /\ LET lk == lookupFile.species
               raw == NumericRows(folder.pets_.data)
               N == Cardinality(DistinctSpecies)
           IN  /\ Len(lk) = N
               /\ \A k \in 1..N : lk[k].id = k /\ lk[k].value \in DistinctSpecies
               /\ \A k \in 1..(N - 1) : LexLess(lk[k].value, lk[k + 1].value)
               /\ Len(inData) = Len(raw)
               /\ \A i \in 1..Len(raw) :
                    inData[i].species = IF raw[i].species.t = "str"
                                        THEN Int32(IdOf(lk, raw[i].species.v))
                                        ELSE NA

\* A first run over seven species and a record without one.
ContiguousSortedIdsWitness ==
    /\ status = Ended("singleUseProcesses", FALSE)
    /\ "species" \in DOMAIN lookupFile
    /\ Len(lookupFile.species) = 7
    /\ \E i \in 1..Len(inData) : inData[i].species = NA
    /\ \E i \in 1..Len(inData) : inData[i].species = Int32(7)

\* Whether the first run read the scenario's pets_ file: Dog, Cat, Dog, Bird,
\* Cat, Dog, Fish, Rabbit.
ScenarioLoaded ==
    /\ status = Ended("singleUseProcesses", FALSE)
    /\ folder.pets_.data = PetsFile(FiveSpecies)

\* C8, as the specification states it: the scenario gives the lookup ids
\* Bird=1, Cat=2, Dog=3, Fish=4, Rabbit=5 and a species column of ids.
ScenarioLookupIds ==
    ScenarioLoaded =>
        /\ "species" \in DOMAIN lookupFile
        /\ lookupFile.species =
            <<[id |-> 1, value |-> Bird], [id |-> 2, value |-> Cat],
              [id |-> 3, value |-> Dog], [id |-> 4, value |-> Fish],
              [id |-> 5, value |-> Rabbit]>>
        /\ [i \in 1..Len(inData) |-> inData[i].species] =
            <<Int32(3), Int32(2), Int32(3), Int32(1), Int32(2), Int32(3),
              Int32(4), Int32(5)>>

\* C8, as the code has it: the scenario holds five distinct species, which is
\* not more than 5, so schemaConv builds no lookup table for the column, no
\* species table is uploaded, and the species column keeps its literals.
ScenarioKeepsLiterals ==
    ScenarioLoaded =>
        /\ "species" \notin DOMAIN lookupFile
        /\ ~db.species.exists
        /\ [i \in 1..Len(inData) |-> inData[i].species] = FiveSpecies
        /\ [i \in 1..Len(db.pets.rows) |-> db.pets.rows[i].species] = FiveSpecies

\* The scenario loaded: eight pets in the pets table, no lookup table.
ScenarioKeepsLiteralsWitness ==
    /\ ScenarioLoaded
    /\ Len(inData) = 8
    /\ Len(db.pets.rows) = 8
    /\ inData[4].species = Str(Bird)
    /\ DOMAIN lookupFile = {}

---------------------------------------------------------------------------
(* The properties of the runs, under Spec.                                 *)

\* Whether the last run was one of automaticProcesses that no stage left by
\* an exception.
Synchronized == status = Ended("automaticProcesses", FALSE)

\* Whether lookupTables.json holds a lookup table for species.
SpeciesNormalized == lookupFile # NoFile /\ "species" \in DOMAIN lookupFile

\* C4: a run of automaticProcesses gives a record whose species the lookup
\* table of lookupTables.json lacks a null species, and leaves the file as it
\* was: no id is added for the value.
UnknownValueIsNull ==
    [][(SpeciesNormalized /\ status' = Ended("automaticProcesses", FALSE)) =>
        LET raw == NumericRows(folder'.newpets.data)
        IN  /\ lookupFile' = lookupFile
            /\ Len(nData') = Len(raw)
            /\ \A i \in 1..Len(raw) :
                (raw[i].species.v \notin ValuesOf(lookupFile.species))
                    => /\ nData'[i].species = None
                       /\ raw[i].species.v \notin ValuesOf(lookupFile'.species)
                       /\ Len(lookupFile'.species) = Len(lookupFile.species)]_vars

\* A run that read a Hamster while the lookup table holds six other species.
UnknownValueIsNullWitness ==
    /\ Synchronized
    /\ SpeciesNormalized
    /\ Len(lookupFile.species) = 6
    /\ Hamster \notin ValuesOf(lookupFile.species)
    /\ \E i \in 1..Len(nData) :
            /\ NumericRows(folder.newpets.data)[i].species = Str(Hamster)
            /\ nData[i].species = None
    /\ \E i \in 1..Len(db.new_pets.rows) : db.new_pets.rows[i].species = None

\* C5: no run of automaticProcesses writes lookupTables.json, and each run
\* gives a species the lookup table holds the id the table has for it: the
\* same id on every run.
ContractStable ==
    [][(status'.entry = "automaticProcesses") =>
        /\ lookupFile' = lookupFile
        /\ (SpeciesNormalized /\ ~status'.raised) =>
            LET raw == NumericRows(folder'.newpets.data)
            IN  \A i \in 1..Len(raw) :
                    (raw[i].species.v \in ValuesOf(lookupFile.species))
                        => nData'[i].species =
                                Int32(IdOf(lookupFile.species, raw[i].species.v))]_vars

\* A run that read a Dog, which resolved to the id it has had since the first
\* run numbered the six species: 4.
ContractStableWitness ==
    /\ Synchronized
    /\ SpeciesNormalized
    /\ IdOf(lookupFile.species, Dog) = 4
    /\ \E i \in 1..Len(nData) :
            /\ NumericRows(folder.newpets.data)[i].species = Str(Dog)
            /\ nData[i].species = Int32(4)
    /\ \E i \in 1..Len(db.new_pets.rows) : db.new_pets.rows[i].species = Int32(4)

\* C6: dropInvalid drops a record whose animalID is no number before
\* dtypeConv sees it, so that the cast to int does not raise on it; the typed
\* frames hold the numeric records of the files, all of them and in order, and
\* no row of the pets and new_pets tables comes from any other record.
InvalidIdentifiersDropped ==
    /\ \A t \in KeyedTables :
        \A i \in 1..Len(db[t].rows) : db[t].rows[i].animalID.t = "int"
    /\ status = Ended("singleUseProcesses", FALSE) =>
        /\ IdsOf(inData) = ExpectedIds(folder.pets_.data)
        /\ IdsOf(db.pets.rows) = ExpectedIds(folder.pets_.data)
        /\ IdsOf(nData) = ExpectedIds(folder.newpets.data)
        /\ IdsOf(db.new_pets.rows) = ExpectedIds(folder.newpets.data)
    /\ Synchronized =>
        /\ IdsOf(nData) = ExpectedIds(folder.newpets.data)
        /\ \E order \in Listings :
                IdsOf(upData) = ExpectedIds(updateData(folder, order))
        /\ \A i \in 1..Len(upData) : RowsOf(db.pets, upData[i].animalID) # {}
        /\ \A i \in 1..Len(nData) : RowsOf(db.new_pets, nData[i].animalID) # {}
    /\ status = Ended("singleUseProcesses", TRUE) =>
        \/ folder.pets_.data = <<>>
        \/ folder.newpets.data = <<>>
        \/ db.pets.exists /\ ~db.pets.pk
        \/ db.new_pets.exists /\ ~db.new_pets.pk
    /\ status = Ended("automaticProcesses", TRUE) =>
        \/ folder.updatedpets.data \o folder.newpets.data = <<>>
        \/ folder.newpets.data = <<>>
        \/ lookupFile = NoFile
        \/ ~db.pets.exists
        \/ ~db.new_pets.exists

\* A run whose newpets file held a record with a placeholder for its animalID
\* next to a pet: the pet alone is in the frame and in the table.
InvalidIdentifiersDroppedWitness ==
    /\ Synchronized
    /\ Len(folder.newpets.data) = 2
    /\ \E i \in 1..2 : folder.newpets.data[i].animalID = Str(Placeholder)
    /\ Len(nData) = 1
    /\ RowsOf(db.new_pets, nData[1].animalID) # {}

====
